---- MODULE Spec2Model ----
(***************************************************************************)
(* TORO maintenance orders: the Order resource (create / get / list /      *)
(* delete), its validator, and the year-scoped order-number generator,     *)
(* run by several request handlers that share one store.                   *)
(*                                                                         *)
(* Strings the program inspects character by character (order numbers,     *)
(* phone numbers, e-mail addresses, trimmed text fields) are sequences of   *)
(* one-character strings; enum values are plain strings.                    *)
(*                                                                         *)
(* The server sources (app.py, models.py, database.py) are described by the *)
(* API document and the README only; the create path follows the design    *)
(* with one orders table: read the year's maximum sequence, insert under    *)
(* the uniqueness constraint, retry on conflict.                            *)
(*                                                                         *)
(* The mobile materials screen (MaterialsListScreen.tsx) is modelled next   *)
(* to the server: its mock data, search text and selected filter chip, with *)
(* the displayed list derived from them as the screen derives it.           *)
(*                                                                         *)
(* call and resp record the exchange of the last step.  A recorded exchange *)
(* is delivered (Deliver) before the next request step runs, so that each   *)
(* response is seen next to the state it was computed from.                 *)
(***************************************************************************)
EXTENDS Integers, Sequences, FiniteSets, TLC

\* ------------------------------------------------------------------ bounds
Procs == {"w1", "w2"}       \* independent request handlers sharing the store
MaxCreates == 3             \* ids handed out plus creates in flight
MaxNow == 1                 \* clock ticks; one tick is one calendar year
MaxQueryLen == 3            \* characters in the search field

BaseYear == 2025
RetryLimit == 1

\* ----------------------------------------------------------- text helpers
DigitChars == <<"0", "1", "2", "3", "4", "5", "6", "7", "8", "9">>

IsDigit(c) == \E d \in 1..10 : DigitChars[d] = c

DigitVal(c) == (CHOOSE d \in 1..10 : DigitChars[d] = c) - 1

RECURSIVE NatToChars(_)
NatToChars(n) ==
    IF n < 10 THEN <<DigitChars[n + 1]>>
    ELSE NatToChars(n \div 10) \o <<DigitChars[(n % 10) + 1]>>

RECURSIVE CharsToNat(_)
CharsToNat(s) ==
    IF Len(s) = 0 THEN 0
    ELSE 10 * CharsToNat(SubSeq(s, 1, Len(s) - 1)) + DigitVal(s[Len(s)])

RECURSIVE ZeroPad(_, _)
ZeroPad(s, width) == IF Len(s) >= width THEN s ELSE ZeroPad(<<"0">> \o s, width)

RECURSIVE Trim(_)
Trim(s) ==
    IF Len(s) = 0 THEN s
    ELSE IF s[1] = " " THEN Trim(Tail(s))
    ELSE IF s[Len(s)] = " " THEN Trim(SubSeq(s, 1, Len(s) - 1))
    ELSE s

\* ----------------------------------------------------------- order number
Prefix == <<"T", "O", "R", "O", "-">>

\* variant: the sequence padded to two digits
FormatOrderNumberPad2(year, n) ==
    Prefix \o NatToChars(year) \o <<"-">> \o ZeroPad(NatToChars(n), 2)

\* TORO-YYYY-NNN: the year, then the sequence zero-padded to at least 3 digits
FormatOrderNumber(year, n) ==
    Prefix \o NatToChars(year) \o <<"-">> \o ZeroPad(NatToChars(n), 3)

YearOfNumber(num) == CharsToNat(SubSeq(num, 6, 9))

SeqOfNumber(num) == CharsToNat(SubSeq(num, 11, Len(num)))

SetMax(S) == IF S = {} THEN 0 ELSE CHOOSE m \in S : \A x \in S : x <= m

\* max(existing sequence for this year), 0 when the year has no order
MaxSeq(rows, year) ==
    SetMax({SeqOfNumber(r.order_number) :
              r \in {o \in rows : YearOfNumber(o.order_number) = year}})

\* variant: the maximum taken over every year
NextSeqAnyYear(rows, year) ==
    SetMax({SeqOfNumber(r.order_number) : r \in rows}) + 1

NextSeq(rows, year) == MaxSeq(rows, year) + 1

\* --------------------------------------------------------------- validator
\* variant: the required fields before contact_email was added
RequiredFieldsNoEmail ==
    {"equipment_type", "equipment_id", "issue_description",
     "requester_name", "department", "contact_phone"}

RequiredFields ==
    {"equipment_type", "equipment_id", "issue_description",
     "requester_name", "department", "contact_phone", "contact_email"}

\* the text columns of an order
TextFields ==
    {"equipment_type", "equipment_id", "issue_description",
     "requester_name", "department", "contact_phone", "contact_email"}

\* variant: the comparison ignores the case of the first letter
PrioritiesLoose == {"low", "medium", "high", "Low", "Medium", "High"}

Priorities == {"low", "medium", "high"}

Statuses == {"created", "in_progress", "completed"}

DefaultPriority == "medium"

DefaultStatus == "created"

Has(payload, f) == f \in DOMAIN payload

\* rule 1: present and non-empty after trimming
MissingRequired(payload) ==
    {f \in RequiredFields : ~Has(payload, f) \/ Len(Trim(payload[f])) = 0}

\* +7-XXX-XXX-XX-XX
MatchesPhone(s) ==
    /\ Len(s) = 16
    /\ s[1] = "+" /\ s[2] = "7"
    /\ \A i \in {3, 7, 11, 14} : s[i] = "-"
    /\ \A i \in {4, 5, 6, 8, 9, 10, 12, 13, 15, 16} : IsDigit(s[i])

\* local-part @ domain, the domain holding a dot with text on both sides
MatchesEmail(s) ==
    /\ Cardinality({i \in 1..Len(s) : s[i] = "@"}) = 1
    /\ \E i \in 2..Len(s) :
         /\ s[i] = "@"
         /\ \E j \in (i + 2)..(Len(s) - 1) : s[j] = "."
    /\ \A i \in 1..Len(s) : s[i] # " "

Violations(payload) ==
    MissingRequired(payload)
      \cup {f \in {"priority"} : Has(payload, f) /\ payload[f] \notin Priorities}
      \cup {f \in {"contact_phone"} :
              Has(payload, f) /\ ~MatchesPhone(Trim(payload[f]))}
      \cup {f \in {"contact_email"} :
              Has(payload, f) /\ ~MatchesEmail(Trim(payload[f]))}

\* variant: a status supplied in the payload is taken over
NormalizeKeepsStatus(payload) ==
    [f \in TextFields \cup {"priority", "status"} |->
        IF f = "priority"
        THEN (IF Has(payload, f) THEN payload[f] ELSE DefaultPriority)
        ELSE IF f = "status"
        THEN (IF Has(payload, f) THEN payload[f] ELSE DefaultStatus)
        ELSE (IF Has(payload, f) THEN Trim(payload[f]) ELSE <<>>)]

\* trimmed strings, defaults filled; a supplied status is ignored: the status
\* of a new order is always the default
Normalize(payload) ==
    [f \in TextFields \cup {"priority", "status"} |->
        IF f = "priority"
        THEN (IF Has(payload, f) THEN payload[f] ELSE DefaultPriority)
        ELSE IF f = "status"
        THEN DefaultStatus
        ELSE (IF Has(payload, f) THEN Trim(payload[f]) ELSE <<>>)]

\* ------------------------------------------------------------------ inputs
PhoneOk == <<"+", "7", "-", "9", "0", "0", "-", "1", "2", "3", "-",
             "4", "5", "-", "6", "7">>

PhoneBad == <<"5", "5", "5", "-", "1", "2", "3", "4">>

EmailOk == <<"i", "@", "e", ".", "c">>

EmailBad == <<"i", "@", "e">>

DeptA == <<"A">>

DeptB == <<"B">>

BasePayload ==
    [equipment_type |-> <<"C", "N", "C">>, equipment_id |-> <<"1">>,
     issue_description |-> <<"x">>, requester_name |-> <<"I">>,
     department |-> DeptA, contact_phone |-> PhoneOk,
     contact_email |-> EmailOk, priority |-> "high"]

Without(payload, f) == [g \in DOMAIN payload \ {f} |-> payload[g]]

With(payload, f, v) ==
    [g \in DOMAIN payload \cup {f} |-> IF g = f THEN v ELSE payload[g]]

ValidPayloads ==
    { BasePayload,
      With(BasePayload, "priority", "low"),
      With(With(Without(BasePayload, "priority"), "department", <<" ", "B">>),
           "status", "completed") }

InvalidPayloads ==
    {Without(BasePayload, f) : f \in TextFields}
      \cup {With(BasePayload, f, <<>>) : f \in TextFields}
      \cup {With(BasePayload, f, <<" ">>) : f \in TextFields}
      \cup { With(BasePayload, "priority", "High"),
             With(BasePayload, "contact_phone", PhoneBad),
             With(BasePayload, "contact_email", EmailBad) }

\* valid payloads that also carry a status, inside and outside the enum
StatusPayloads ==
    { With(BasePayload, "status", "in_progress"),
      With(BasePayload, "status", "archived") }

Payloads == ValidPayloads \cup StatusPayloads \cup InvalidPayloads

NoFilter == [k \in {} |-> ""]

FilterOf(p, s, d) ==
    (IF p = "" THEN NoFilter ELSE [k \in {"priority"} |-> p])
      @@ (IF s = "" THEN NoFilter ELSE [k \in {"status"} |-> s])
      @@ (IF d = <<>> THEN NoFilter ELSE [k \in {"department"} |-> d])

Filters ==
    {FilterOf(p, s, d) : p \in {"", "high", "urgent"},
                         s \in {"", "created", "completed", "done"},
                         d \in {<<>>, DeptA, DeptB}}

Ids == 1..(MaxCreates + 1)

\* -------------------------------------------------------- materials screen
\* Text of the mobile screen: ASCII characters stand for themselves, a
\* Cyrillic letter is written as its code point.
OilFilterName ==
    <<"U+0424", "U+0438", "U+043B", "U+044C", "U+0442", "U+0440", " ",
      "U+043C", "U+0430", "U+0441", "U+043B", "U+044F", "U+043D", "U+044B",
      "U+0439", " ", "T", "O", "R", "-", "4", "0", "0">>

HydraulicFluidName ==
    <<"U+0413", "U+0438", "U+0434", "U+0440", "U+0430", "U+0432", "U+043B",
      "U+0438", "U+0447", "U+0435", "U+0441", "U+043A", "U+0430", "U+044F",
      " ", "U+0436", "U+0438", "U+0434", "U+043A", "U+043E", "U+0441",
      "U+0442", "U+044C", " ", "I", "S", "O", " ", "V", "G", " ", "4", "6">>

CoolantName ==
    <<"U+041E", "U+0445", "U+043B", "U+0430", "U+0436", "U+0434", "U+0430",
      "U+044E", "U+0449", "U+0430", "U+044F", " ", "U+0436", "U+0438",
      "U+0434", "U+043A", "U+043E", "U+0441", "U+0442", "U+044C", " ", "T",
      "O", "R", "O", " ", "C", "o", "o", "l", "a", "n", "t">>

VBeltName ==
    <<"U+041F", "U+0440", "U+0438", "U+0432", "U+043E", "U+0434", "U+043D",
      "U+043E", "U+0439", " ", "U+0440", "U+0435", "U+043C", "U+0435",
      "U+043D", "U+044C", " ", "1", "2", "x", "1", "2", "0", "0">>

OilFilter ==
    [id |-> "oil-filter",
     name |-> OilFilterName,
     code |-> "TOR-400-FLTR",
     unit |-> <<"U+0448", "U+0442">>,
     quantity |-> 6,
     status |-> "in_stock",
     category |-> "mandatory"]

HydraulicFluid ==
    [id |-> "hydraulic-fluid",
     name |-> HydraulicFluidName,
     code |-> "ISO-VG46",
     unit |-> <<"U+043B">>,
     quantity |-> 18,
     status |-> "low",
     category |-> "mandatory",
     eta |-> <<"U+0414", "U+043E", "U+0441", "U+0442", "U+0430", "U+0432",
             "U+043A", "U+0430", " ", "1", "2", " ", "U+0434", "U+0435",
             "U+043A">>]

Coolant ==
    [id |-> "coolant",
     name |-> CoolantName,
     code |-> "TO-CLNT",
     unit |-> <<"U+043B">>,
     quantity |-> 0,
     status |-> "out",
     category |-> "mandatory",
     eta |-> <<"U+041E", "U+0436", "U+0438", "U+0434", "U+0430", "U+0435",
             "U+0442", "U+0441", "U+044F", " ", "1", "5", " ", "U+0434",
             "U+0435", "U+043A">>]

VBelt ==
    [id |-> "v-belt",
     name |-> VBeltName,
     code |-> "VB-12-1200",
     unit |-> <<"U+0448", "U+0442">>,
     quantity |-> 9,
     status |-> "in_stock",
     category |-> "optional"]

UpperCase ==
    <<"A", "B", "C", "D", "E", "F", "G", "H", "I", "J", "K", "L", "M", "N",
      "O", "P", "Q", "R", "S", "T", "U", "V", "W", "X", "Y", "Z", "U+0410",
      "U+0411", "U+0412", "U+0413", "U+0414", "U+0415", "U+0416", "U+0417",
      "U+0418", "U+0419", "U+041A", "U+041B", "U+041C", "U+041D", "U+041E",
      "U+041F", "U+0420", "U+0421", "U+0422", "U+0423", "U+0424", "U+0425",
      "U+0426", "U+0427", "U+0428", "U+0429", "U+042A", "U+042B", "U+042C",
      "U+042D", "U+042E", "U+042F", "U+0401">>

LowerCase ==
    <<"a", "b", "c", "d", "e", "f", "g", "h", "i", "j", "k", "l", "m", "n",
      "o", "p", "q", "r", "s", "t", "u", "v", "w", "x", "y", "z", "U+0430",
      "U+0431", "U+0432", "U+0433", "U+0434", "U+0435", "U+0436", "U+0437",
      "U+0438", "U+0439", "U+043A", "U+043B", "U+043C", "U+043D", "U+043E",
      "U+043F", "U+0440", "U+0441", "U+0442", "U+0443", "U+0444", "U+0445",
      "U+0446", "U+0447", "U+0448", "U+0449", "U+044A", "U+044B", "U+044C",
      "U+044D", "U+044E", "U+044F", "U+0451">>

mockMaterials == <<OilFilter, HydraulicFluid, Coolant, VBelt>>

filters == <<"all", "mandatory", "optional">>

\* String.prototype.toLowerCase, letter by letter
toLowerCase(s) ==
    [i \in 1..Len(s) |->
        IF \E k \in 1..Len(UpperCase) : UpperCase[k] = s[i]
        THEN LowerCase[CHOOSE k \in 1..Len(UpperCase) : UpperCase[k] = s[i]]
        ELSE s[i]]

\* String.prototype.includes: sub occurs in s at some position
RECURSIVE includes(_, _)
includes(s, sub) ==
    IF Len(sub) > Len(s) THEN FALSE
    ELSE IF SubSeq(s, 1, Len(sub)) = sub THEN TRUE
    ELSE includes(Tail(s), sub)

\* what the search field can hold: a few letters of both alphabets and cases
QueryChars == {"t", "O", "r", "1", "U+0416"}

Queries == UNION {[1..n -> QueryChars] : n \in 0..MaxQueryLen}

\* ------------------------------------------------------------------- state
VARIABLES
    orders,     \* the orders table: a set of rows
    nextId,     \* the store's autoincrement counter
    now,        \* the clock
    pc,         \* per handler: "idle", "number" (validated), "insert" (numbered)
    req,        \* per handler: the normalized payload of the create in flight
    yr,         \* per handler: the year computed for the create in flight
    seq,        \* per handler: the sequence number computed for it
    attempts,   \* per handler: conflicts met so far by the create in flight
    call,       \* the create payload received in the last step, if any
    resp,       \* the response returned in the last step, if any
    issued,     \* history: per successful create, its year, number and id
    returned,   \* history: id -> the row create returned, until it is deleted
    deleted,    \* history: the ids delete has removed
    materials,  \* the screen's data: the array exported as mockMaterials
    query,      \* the screen's search text
    activeFilter \* the screen's selected filter chip (the state named filter)

vars == <<orders, nextId, now, pc, req, yr, seq, attempts, call, resp,
          issued, returned, deleted, materials, query, activeFilter>>

server == <<orders, nextId, now, pc, req, yr, seq, attempts, call, resp,
            issued, returned, deleted>>

screen == <<materials, query, activeFilter>>

NoReq == [f \in TextFields \cup {"priority", "status"} |->
            IF f \in {"priority", "status"} THEN "" ELSE <<>>]

NoCall == [k \in {} |-> ""]

NoResp == [op |-> "none", kind |-> "none", code |-> 0]

Year(t) == BaseYear + t

HttpStatus(kind) ==
    CASE kind = "Order" -> 200
      [] kind = "Created" -> 201
      [] kind = "List" -> 200
      [] kind = "Deleted" -> 204
      [] kind = "ValidationFailed" -> 400
      [] kind = "NotFound" -> 404
      [] kind = "Conflict" -> 409
      [] kind = "StorageError" -> 500

Failure(op, arg, kind) ==
    [op |-> op, arg |-> arg, kind |-> kind, code |-> HttpStatus(kind)]

Init ==
    /\ orders = {}
    /\ nextId = 1
    /\ now = 0
    /\ pc = [p \in Procs |-> "idle"]
    /\ req = [p \in Procs |-> NoReq]
    /\ yr = [p \in Procs |-> 0]
    /\ seq = [p \in Procs |-> 0]
    /\ attempts = [p \in Procs |-> 0]
    /\ call = NoCall
    /\ resp = NoResp
    /\ issued = <<>>
    /\ returned = [i \in {} |-> NoReq]
    /\ deleted = {}
    /\ materials = mockMaterials
    /\ query = <<>>
    /\ activeFilter = "all"

InFlight == {p \in Procs : pc[p] # "idle"}

\* the last exchange has been handed over: nothing is waiting to be delivered
Quiet == call = NoCall /\ resp = NoResp

\* ------------------------------------------------------------------ create
\* Validator, then the current year; a rejected payload touches nothing.
CreateBegin(p, payload) ==
    /\ Quiet
    /\ pc[p] = "idle"
    /\ call' = payload
    /\ IF Violations(payload) # {}
       THEN /\ resp' = Failure("create", payload, "ValidationFailed")
            /\ UNCHANGED <<pc, req, yr, seq, attempts>>
       ELSE /\ (nextId - 1) + Cardinality(InFlight) < MaxCreates
            /\ pc' = [pc EXCEPT ![p] = "number"]
            /\ req' = [req EXCEPT ![p] = Normalize(payload)]
            /\ yr' = [yr EXCEPT ![p] = Year(now)]
            /\ attempts' = [attempts EXCEPT ![p] = 0]
            /\ resp' = NoResp
            /\ UNCHANGED seq
    /\ UNCHANGED <<orders, nextId, now, issued, returned, deleted>>
    /\ UNCHANGED screen

\* OrderNumberGenerator.next(year): read the year's maximum from the table
CreateNumber(p) ==
    /\ Quiet
    /\ pc[p] = "number"
    /\ seq' = [seq EXCEPT ![p] = NextSeq(orders, yr[p])]
    /\ pc' = [pc EXCEPT ![p] = "insert"]
    /\ call' = NoCall
    /\ resp' = NoResp
    /\ UNCHANGED <<orders, nextId, now, req, yr, attempts, issued, returned,
                   deleted>>
    /\ UNCHANGED screen

\* variant: a table without the constraint
NoUniqueCheck(rows, num) == FALSE

\* the uniqueness constraint on order_number
UniqueViolation(rows, num) == \E r \in rows : r.order_number = num

\* variant: the key is one more than the highest key stored
AllocIdMaxPlusOne(rows, counter) == SetMax({r.id : r \in rows}) + 1

\* the autoincrement primary key: the value of the store's counter
AllocId(rows, counter) == counter

NewOrder(id, num, r, t) ==
    [id |-> id, order_number |-> num,
     equipment_type |-> r.equipment_type, equipment_id |-> r.equipment_id,
     issue_description |-> r.issue_description, priority |-> r.priority,
     status |-> r.status, requester_name |-> r.requester_name,
     department |-> r.department, contact_phone |-> r.contact_phone,
     contact_email |-> r.contact_email, created_at |-> t, updated_at |-> t]

Finish(p) ==
    /\ pc' = [pc EXCEPT ![p] = "idle"]
    /\ req' = [req EXCEPT ![p] = NoReq]
    /\ yr' = [yr EXCEPT ![p] = 0]
    /\ seq' = [seq EXCEPT ![p] = 0]
    /\ attempts' = [attempts EXCEPT ![p] = 0]

\* variant: the failure is reported after the row was committed
RolledBackKeepsRow(rows, row) == rows \cup {row}

\* the table after a transaction that failed: the insert is rolled back
RolledBack(rows, row) == rows

InsertFails(p, row) ==
    /\ orders' = RolledBack(orders, row)
    /\ resp' = Failure("create", req[p], "StorageError")
    /\ Finish(p)
    /\ UNCHANGED <<nextId, issued, returned>>

\* variant: retry without a limit
RetryAlways(p) ==
    /\ pc' = [pc EXCEPT ![p] = "number"]
    /\ attempts' = [attempts EXCEPT ![p] = attempts[p] + 1]
    /\ resp' = NoResp
    /\ UNCHANGED <<req, yr, seq>>

\* a uniqueness conflict: recompute and re-insert, at most RetryLimit times
RetryOrGiveUp(p) ==
    IF attempts[p] < RetryLimit
    THEN /\ pc' = [pc EXCEPT ![p] = "number"]
         /\ attempts' = [attempts EXCEPT ![p] = attempts[p] + 1]
         /\ resp' = NoResp
         /\ UNCHANGED <<req, yr, seq>>
    ELSE /\ resp' = Failure("create", req[p], "Conflict")
         /\ Finish(p)

InsertConflicts(p) ==
    /\ RetryOrGiveUp(p)
    /\ UNCHANGED <<orders, nextId, issued, returned>>

InsertSucceeds(p, row) ==
    /\ orders' = orders \cup {row}
    /\ nextId' = nextId + 1
    /\ issued' = Append(issued, [year |-> yr[p], number |-> row.order_number,
                                 id |-> row.id])
    /\ returned' = [i \in DOMAIN returned \cup {row.id} |->
                      IF i = row.id THEN row ELSE returned[i]]
    /\ resp' = [op |-> "create", arg |-> req[p], kind |-> "Created",
                code |-> HttpStatus("Created"), body |-> row]
    /\ Finish(p)

\* OrderStore.insert in one transaction: the row with its id, or an error
CreateInsert(p) ==
    /\ Quiet
    /\ pc[p] = "insert"
    /\ call' = NoCall
    /\ LET row == NewOrder(AllocId(orders, nextId),
                           FormatOrderNumber(yr[p], seq[p]), req[p], now)
       IN \/ InsertFails(p, row)
          \/ /\ UniqueViolation(orders, row.order_number)
             /\ InsertConflicts(p)
          \/ /\ ~UniqueViolation(orders, row.order_number)
             /\ InsertSucceeds(p, row)
    /\ UNCHANGED <<now, deleted>>
    /\ UNCHANGED screen

\* --------------------------------------------------------------------- get
\* variant: the first row of the table, whatever the id
GetByIdFirst(rows, id) == {r \in rows : \A o \in rows : r.id <= o.id}

GetById(rows, id) == {r \in rows : r.id = id}

Get(id) ==
    /\ Quiet
    /\ resp' = IF GetById(orders, id) = {}
               THEN Failure("get", id, "NotFound")
               ELSE [op |-> "get", arg |-> id, kind |-> "Order",
                     code |-> HttpStatus("Order"),
                     body |-> CHOOSE r \in GetById(orders, id) : TRUE]
    /\ call' = NoCall
    /\ UNCHANGED <<orders, nextId, now, pc, req, yr, seq, attempts, issued,
                   returned, deleted>>
    /\ UNCHANGED screen

\* ------------------------------------------------------------------ delete
\* variant: the delete is never committed
DeleteNothing(rows, id) == rows

\* variant: a delete without its WHERE clause
DeleteAll(rows, id) == {}

DeleteRow(rows, id) == {r \in rows : r.id # id}

Delete(id) ==
    /\ Quiet
    /\ IF GetById(orders, id) = {}
       THEN /\ resp' = Failure("delete", id, "NotFound")
            /\ UNCHANGED <<orders, returned, deleted>>
       ELSE /\ orders' = DeleteRow(orders, id)
            /\ returned' = [i \in DOMAIN returned \ {id} |-> returned[i]]
            /\ deleted' = deleted \cup {id}
            /\ resp' = [op |-> "delete", arg |-> id, kind |-> "Deleted",
                        code |-> HttpStatus("Deleted")]
    /\ call' = NoCall
    /\ UNCHANGED <<nextId, now, pc, req, yr, seq, attempts, issued>>
    /\ UNCHANGED screen

\* -------------------------------------------------------------------- list
\* variant: only the priority value is checked
FilterValidNoStatus(filter) ==
    "priority" \in DOMAIN filter => filter["priority"] \in Priorities

FilterValid(filter) ==
    /\ "priority" \in DOMAIN filter => filter["priority"] \in Priorities
    /\ "status" \in DOMAIN filter => filter["status"] \in Statuses

\* variant: the predicates combined with OR
MatchesAny(row, filter) ==
    \/ DOMAIN filter = {}
    \/ \E k \in DOMAIN filter : row[k] = filter[k]

Matches(row, filter) == \A k \in DOMAIN filter : row[k] = filter[k]

RECURSIVE SortById(_)
SortById(rows) ==
    IF rows = {} THEN <<>>
    ELSE LET first == CHOOSE r \in rows : \A o \in rows : r.id <= o.id
         IN <<first>> \o SortById(rows \ {first})

ListOrders(rows, filter) == SortById({r \in rows : Matches(r, filter)})

List(filter) ==
    /\ Quiet
    /\ resp' = IF ~FilterValid(filter)
               THEN Failure("list", filter, "ValidationFailed")
               ELSE LET found == ListOrders(orders, filter)
                    IN [op |-> "list", arg |-> filter, kind |-> "List",
                        code |-> HttpStatus("List"),
                        body |-> [orders |-> found, total |-> Len(found)]]
    /\ call' = NoCall
    /\ UNCHANGED <<orders, nextId, now, pc, req, yr, seq, attempts, issued,
                   returned, deleted>>
    /\ UNCHANGED screen

\* ------------------------------------------------------------------- clock
Tick ==
    /\ Quiet
    /\ now < MaxNow
    /\ now' = now + 1
    /\ call' = NoCall
    /\ resp' = NoResp
    /\ UNCHANGED <<orders, nextId, pc, req, yr, seq, attempts, issued,
                   returned, deleted>>
    /\ UNCHANGED screen

\* the boundary layer hands the response over; the exchange is forgotten
Deliver ==
    /\ ~Quiet
    /\ call' = NoCall
    /\ resp' = NoResp
    /\ UNCHANGED <<orders, nextId, now, pc, req, yr, seq, attempts, issued,
                   returned, deleted>>
    /\ UNCHANGED screen

\* -------------------------------------------------------- materials screen
\* variant: the name is compared as written
matchesQueryExact(material) == includes(material.name, query)

matchesCategory(material) ==
    IF activeFilter = "all" THEN TRUE ELSE material.category = activeFilter

matchesQuery(material) ==
    includes(toLowerCase(material.name), toLowerCase(query))

\* the memoized list, recomputed from filter and query at each render
filteredMaterials ==
    SelectSeq(materials,
              LAMBDA material : matchesCategory(material) /\ matchesQuery(material))

\* FlatList renders ListEmptyComponent when its data is empty
EmptyStateShown == Len(filteredMaterials) = 0

\* variant: the chip press also clears the search field
setFilterClearsQuery(id) ==
    /\ activeFilter' = id
    /\ query' = <<>>
    /\ UNCHANGED <<materials, server>>

\* FilterChip onPress
setFilter(id) ==
    /\ activeFilter' = id
    /\ UNCHANGED <<materials, query, server>>

\* SearchField onChangeText
setQuery(text) ==
    /\ query' = text
    /\ UNCHANGED <<materials, activeFilter, server>>

NextScreen ==
    \/ \E i \in 1..Len(filters) : setFilter(filters[i])
    \/ \E text \in Queries : setQuery(text)

SpecScreen == Init /\ [][NextScreen]_vars

\* Two handlers race on the numbering; a small sample of payloads.
CorePayloads ==
    { BasePayload,
      With(With(Without(BasePayload, "priority"), "department", <<" ", "B">>),
           "status", "completed"),
      Without(BasePayload, "contact_email") }

Next ==
    \/ \E p \in Procs, payload \in CorePayloads : CreateBegin(p, payload)
    \/ \E p \in Procs : CreateNumber(p)
    \/ \E p \in Procs : CreateInsert(p)
    \/ \E id \in Ids : Delete(id)
    \/ Tick
    \/ Deliver

Spec == Init /\ [][Next]_vars

\* One handler creates; every payload and every id is tried (SpecSeq), or
\* every filter (SpecList).
Solo == "w1"

NextSolo ==
    \/ \E payload \in Payloads : CreateBegin(Solo, payload)
    \/ CreateNumber(Solo)
    \/ CreateInsert(Solo)
    \/ \E id \in Ids : Get(id)
    \/ \E id \in Ids : Delete(id)
    \/ Tick
    \/ Deliver

SpecSeq == Init /\ [][NextSolo]_vars

NextList ==
    \/ \E payload \in ValidPayloads : CreateBegin(Solo, payload)
    \/ CreateNumber(Solo)
    \/ CreateInsert(Solo)
    \/ \E id \in Ids : Delete(id)
    \/ \E filter \in Filters : List(filter)
    \/ Tick
    \/ Deliver

SpecList == Init /\ [][NextList]_vars

\* The race alone, deletes being of stored orders. A handler in the middle of a create runs on whatever the
\* other requests do: its next step is taken eventually. The step waits only
\* for the pending exchange to be delivered, which happens again and again,
\* hence strong fairness on the steps and weak fairness on the delivery.
NextLive ==
    \/ \E p \in Procs : CreateBegin(p, BasePayload)
    \/ \E p \in Procs : CreateNumber(p)
    \/ \E p \in Procs : CreateInsert(p)
    \/ \E id \in {r.id : r \in orders} : Delete(id)
    \/ Tick
    \/ Deliver

FairSpec ==
    /\ Init
    /\ [][NextLive]_vars
    /\ WF_vars(Deliver)
    /\ \A p \in Procs : SF_vars(CreateNumber(p)) /\ SF_vars(CreateInsert(p))

\* Every operation against the shared store: the creates of two handlers that
\* succeed, are rejected, conflict or fail, next to gets, lists and deletes.
FrameFilters ==
    { NoFilter, FilterOf("high", "", <<>>), FilterOf("", "done", <<>>) }

FramePayloads ==
    { BasePayload, With(BasePayload, "priority", "High") }

NextFrame ==
    \/ \E p \in Procs, payload \in FramePayloads : CreateBegin(p, payload)
    \/ \E p \in Procs : CreateNumber(p)
    \/ \E p \in Procs : CreateInsert(p)
    \/ \E id \in Ids : Get(id)
    \/ \E filter \in FrameFilters : List(filter)
    \/ \E id \in Ids : Delete(id)
    \/ Tick
    \/ Deliver

SpecFrame == Init /\ [][NextFrame]_vars

\* ------------------------------------------------------------------ claims
IdsOf(rows) == {r.id : r \in rows}

NoRepeat(numbers) ==
    \A i, j \in 1..Len(numbers) : numbers[i] = numbers[j] => i = j

IssuedNumbers == [i \in 1..Len(issued) |-> issued[i].number]

\* C1: under every interleaving of concurrent creates, also by several
\* handlers sharing the store, no two stored orders carry the same
\* order_number, and as long as nothing has been deleted no two creates have
\* returned the same number.
C1_UniqueUnderConcurrency ==
    /\ \A a, b \in orders : a.order_number = b.order_number => a = b
    /\ deleted = {} => NoRepeat(IssuedNumbers)

\* two rows are stored and a handler has just lost a race for a number
C1_Witness ==
    /\ Cardinality(orders) >= 2
    /\ \E p \in Procs : attempts[p] > 0

\* C2: an order_number is never reused: every successful create returns a
\* number different from the number of every earlier successful create, also
\* after deletes.
C2_NeverReused == NoRepeat(IssuedNumbers)

FirstOfYear(i) == \A j \in 1..(i - 1) : issued[j].year # issued[i].year

IsNumberOne(year, num) ==
    /\ Len(num) = 13
    /\ SubSeq(num, 1, 5) = <<"T", "O", "R", "O", "-">>
    /\ CharsToNat(SubSeq(num, 6, 9)) = year
    /\ SubSeq(num, 10, 13) = <<"-", "0", "0", "1">>

\* C3: numbering is scoped to the year: the first order created in a year
\* gets sequence 1, TORO-Y-001, whatever the earlier years reached; the first
\* create in 2025 returns TORO-2025-001, and a created order has status
\* created.
C3_YearStartsAtOne ==
    /\ \A i \in 1..Len(issued) :
         FirstOfYear(i) => IsNumberOne(issued[i].year, issued[i].number)
    /\ (Len(issued) >= 1 /\ issued[1].year = 2025) =>
         issued[1].number = <<"T", "O", "R", "O", "-", "2", "0", "2", "5",
                              "-", "0", "0", "1">>
    /\ resp.kind = "Created" => resp.body.status = "created"

\* the year before reached sequence 2 and the new year's first order is made
C3_Witness ==
    /\ Len(issued) = 3
    /\ issued[2].year = BaseYear /\ SeqOfNumber(issued[2].number) = 2
    /\ issued[3].year = BaseYear + 1
    /\ resp.kind = "Created"

CreateFailures == {"ValidationFailed", "Conflict", "StorageError"}

\* C4: create is all-or-nothing: the step that returns an Order has added
\* exactly that one row, a step that returns ValidationFailed, Conflict or
\* StorageError has left the table and the id counter as they were, and no
\* step of a create that has not returned yet changes the table.
C4_AllOrNothing ==
    [][ /\ (resp'.op = "create" /\ resp'.kind = "Created") =>
             /\ resp'.body \notin orders
             /\ orders' = orders \cup {resp'.body}
        /\ (resp'.op = "create" /\ resp'.kind \in CreateFailures) =>
             /\ orders' = orders
             /\ nextId' = nextId
        /\ (resp'.op = "none" /\ resp.op = "none") =>
             /\ orders' = orders
             /\ nextId' = nextId
      ]_vars

\* a create has given up with Conflict while two rows are stored
C4_Witness ==
    /\ resp.op = "create" /\ resp.kind = "Conflict"
    /\ Cardinality(orders) = 2

Blank(s) == \A i \in 1..Len(s) : s[i] = " "

SevenFields ==
    {"equipment_type", "equipment_id", "issue_description", "requester_name",
     "department", "contact_phone", "contact_email"}

LacksRequired(payload) ==
    \E f \in SevenFields : f \notin DOMAIN payload \/ Blank(payload[f])

C6_GetReturnsCreated ==
    resp.op = "get" =>
      /\ resp.arg \in DOMAIN returned =>
           /\ resp.kind = "Order"
           /\ resp.code = 200
           /\ resp.body = returned[resp.arg]
           /\ resp.body.id = resp.arg
      /\ resp.kind = "Order" => resp.arg \in DOMAIN returned

\* get(2) answers the second order, made from the payload without priority,
\* after the first order was deleted
C6_Witness ==
    /\ resp.op = "get" /\ resp.kind = "Order" /\ resp.arg = 2
    /\ resp.body.priority = "medium"
    /\ resp.body.department = <<"B">>
    /\ 1 \in deleted

Satisfies(row, filter) ==
    /\ "priority" \in DOMAIN filter => row.priority = filter["priority"]
    /\ "status" \in DOMAIN filter => row.status = filter["status"]
    /\ "department" \in DOMAIN filter => row.department = filter["department"]

\* C8: list(filter) returns exactly the stored orders that satisfy every
\* supplied predicate on priority, status and department, by id ascending,
\* and total is the number of orders returned.
C8_ListExact ==
    (resp.op = "list" /\ resp.kind = "List") =>
      LET out == resp.body.orders
      IN /\ \A i, j \in 1..Len(out) : i < j => out[i].id < out[j].id
         /\ {out[i] : i \in 1..Len(out)} =
              {r \in orders : Satisfies(r, resp.arg)}
         /\ resp.body.total = Len(out)
         /\ resp.body.total =
              Cardinality({r \in orders : Satisfies(r, resp.arg)})
         /\ resp.code = 200

\* orders with priorities high, low, high; list(priority = high) returns the
\* two high orders, total = 2
C8_Witness ==
    /\ resp.op = "list" /\ resp.kind = "List"
    /\ resp.arg = [k \in {"priority"} |-> "high"]
    /\ \E a, b, c \in orders :
         /\ a.id = 1 /\ b.id = 2 /\ c.id = 3
         /\ a.priority = "high" /\ b.priority = "low" /\ c.priority = "high"
         /\ resp.body.orders = <<a, c>>
    /\ resp.body.total = 2

BadFilter(filter) ==
    \/ "priority" \in DOMAIN filter
         /\ filter["priority"] \notin {"low", "medium", "high"}
    \/ "status" \in DOMAIN filter
         /\ filter["status"] \notin {"created", "in_progress", "completed"}

\* C9: list with a priority or status value outside its enum returns
\* ValidationFailed (400) and no list of orders, never a result set.
C9_BadFilterRejected ==
    (resp.op = "list" /\ BadFilter(resp.arg)) =>
      /\ resp.kind = "ValidationFailed"
      /\ resp.code = 400
      /\ "body" \notin DOMAIN resp

\* list(status = done) alone is rejected while orders are stored
C9_Witness ==
    /\ resp.op = "list"
    /\ resp.arg = [k \in {"status"} |-> "done"]
    /\ resp.kind = "ValidationFailed"
    /\ orders # {}

\* C10: every create in flight eventually returns, and never retries more
\* than RetryLimit times: it inserts its row or fails with Conflict.
C10_CreateReturns ==
    /\ \A p \in Procs : (pc[p] # "idle") ~> (pc[p] = "idle")
    /\ [](\A p \in Procs : attempts[p] <= RetryLimit)
    /\ [](resp.kind = "Conflict" => resp.op = "create")

\* a create has exhausted its retries and returned Conflict
C10_Witness ==
    /\ resp.op = "create" /\ resp.kind = "Conflict" /\ resp.code = 409
    /\ \A p \in Procs : pc[p] = "idle"

OtherwiseValid(payload) ==
    /\ ~LacksRequired(payload)
    /\ "priority" \in DOMAIN payload =>
         payload["priority"] \in {"low", "medium", "high"}
    /\ payload["contact_phone"] = PhoneOk
    /\ payload["contact_email"] = EmailOk

C12_PriorityInEnum ==
    /\ [](\A r \in orders : r.priority \in {"low", "medium", "high"})
    /\ [][ call' # NoCall =>
             /\ ("priority" \in DOMAIN call'
                   /\ call'["priority"] \notin {"low", "medium", "high"}) =>
                  /\ resp'.op = "create"
                  /\ resp'.kind = "ValidationFailed"
                  /\ orders' = orders /\ nextId' = nextId /\ pc' = pc
             /\ resp' = NoResp =>
                  req'[Solo].priority =
                    IF "priority" \in DOMAIN call' THEN call'["priority"]
                    ELSE "medium"
         ]_vars
    /\ [][ resp'.kind = "Created" =>
             /\ resp'.body.priority = req[Solo].priority
             /\ resp'.body \in orders'
         ]_vars

\* the order made from the payload without priority is stored with medium,
\* next to an order stored with the low it was given
C12_Witness ==
    /\ resp.op = "create" /\ resp.kind = "Created"
    /\ resp.body.priority = "medium"
    /\ \E r \in orders : r.priority = "low"

\* C13: ids are unique and strictly increasing over the whole history: every
\* successful create returns an id greater than the id of every earlier
\* successful create, also after the order with the highest id was deleted;
\* no id is handed out twice.
C13_IdsIncrease ==
    /\ \A i, j \in 1..Len(issued) : i < j => issued[i].id < issued[j].id
    /\ \A a, b \in orders : a.id = b.id => a = b
    /\ (resp.op = "create" /\ resp.kind = "Created") =>
         /\ resp.body.id \notin deleted
         /\ resp.body.id = issued[Len(issued)].id
         /\ \A r \in orders : r # resp.body => r.id < resp.body.id

\* the order with the highest id was deleted and a create has returned since
C13_Witness ==
    /\ resp.op = "create" /\ resp.kind = "Created"
    /\ \E d \in deleted :
         /\ \A r \in orders : r # resp.body => r.id < d
         /\ d < resp.body.id
    /\ Cardinality(orders) >= 2

\* C14: stored orders are write-once: get, list, a create that fails and a
\* delete of an id that is not stored leave the whole table unchanged, a
\* successful create leaves every row that existed unchanged, a successful
\* delete(id) removes the row with that id and no other, and a row stored
\* under an id before and after a step is the same in every field.
C14_WriteOnce ==
    [][ /\ resp'.op \in {"get", "list"} =>
             orders' = orders /\ nextId' = nextId
        /\ (resp'.op = "create" /\ resp'.kind # "Created") =>
             orders' = orders
        /\ (resp'.op = "delete" /\ resp'.kind = "NotFound") =>
             /\ resp'.arg \notin IdsOf(orders)
             /\ orders' = orders
        /\ (resp'.op = "create" /\ resp'.kind = "Created") =>
             /\ orders \subseteq orders'
             /\ Cardinality(orders') = Cardinality(orders) + 1
        /\ (resp'.op = "delete" /\ resp'.kind = "Deleted") =>
             /\ orders' \subseteq orders
             /\ \A r \in orders : r \in orders' <=> r.id # resp'.arg
             /\ Cardinality(orders') = Cardinality(orders) - 1
        /\ \A a \in orders, b \in orders' : a.id = b.id => a = b
      ]_vars

\* delete has removed one of three stored orders and the two others are
\* still stored
C14_Witness ==
    /\ resp.op = "delete" /\ resp.kind = "Deleted"
    /\ Cardinality(orders) = 2
    /\ resp.arg \notin IdsOf(orders)
    /\ \E r \in orders : r.id < resp.arg

\* the case pairs of the letters a query can hold
CasePairs ==
    { <<"T", "t">>, <<"O", "o">>, <<"R", "r">>, <<"U+0416", "U+0436">> }

SameLetter(a, b) == a = b \/ <<a, b>> \in CasePairs \/ <<b, a>> \in CasePairs

ContainsFold(name, q) ==
    \E k \in 0..(Len(name) - Len(q)) :
        \A i \in 1..Len(q) : SameLetter(name[k + i], q[i])

Shown(m) ==
    /\ activeFilter = "all" \/ m.category = activeFilter
    /\ ContainsFold(m.name, query)

ShownIndexes == {i \in 1..4 : Shown(mockMaterials[i])}

\* C15: whatever chips were pressed and text was typed, the displayed list is
\* exactly the mock materials, in their original order, whose category is
\* the selected filter (any category for all) and whose name contains the
\* query, case ignored; filter all with an empty query displays them all,
\* and the empty-state text is shown exactly when no material matches.
C15_DisplayedList ==
    /\ Len(filteredMaterials) = Cardinality(ShownIndexes)
    /\ \A k \in 1..Len(filteredMaterials) :
         \E i \in ShownIndexes :
            /\ filteredMaterials[k] = mockMaterials[i]
            /\ Cardinality({j \in ShownIndexes : j < i}) = k - 1
    /\ (activeFilter = "all" /\ query = <<>>) =>
         filteredMaterials = <<OilFilter, HydraulicFluid, Coolant, VBelt>>
    /\ EmptyStateShown <=> ShownIndexes = {}

\* chip mandatory and the text tOr: the oil filter (TOR-400) and the coolant
\* (TORO Coolant) are displayed, in that order
C15_Witness ==
    /\ activeFilter = "mandatory"
    /\ query = <<"t", "O", "r">>
    /\ Len(filteredMaterials) = 2
    /\ filteredMaterials[1].id = "oil-filter"
    /\ filteredMaterials[2].id = "coolant"

\* C16: the screen is read-only: no action changes the mock materials; a
\* chip press changes only the selected filter, to all, mandatory or
\* optional, and leaves the query; a text change changes only the query and
\* leaves the selected filter.
C16_ScreenReadOnly ==
    /\ [](materials = mockMaterials)
    /\ [](activeFilter \in {"all", "mandatory", "optional"})
    /\ [][ /\ materials' = materials
           /\ activeFilter' # activeFilter => query' = query
           /\ query' # query => activeFilter' = activeFilter
           /\ server' = server
         ]_vars

\* the chip optional is selected while the text typed before is still there
C16_Witness ==
    /\ activeFilter = "optional"
    /\ query = <<"1">>
    /\ Len(filteredMaterials) = 1

====
